---- MODULE Spec2Model ----
(***************************************************************************)
(* A model of the grid decoder of serde-google-sheets (src/src/de.rs).     *)
(*                                                                         *)
(* The state is the Deserializer struct (rows, types, key_idx, row_idx,    *)
(* cur_type, parsing_enum) together with the control state of the decode   *)
(* protocol: the stack of engine handlers that are waiting for the         *)
(* consumer (the serde visitor of the target type) and the last result     *)
(* handed over.  Every handler of de.rs is one action.  A handler that     *)
(* calls back into the consumer in its middle (next_element_seed,          *)
(* variant_seed, ...) is split at that call: its first half pushes a       *)
(* frame, and the half after the call runs when the frame returns.         *)
(*                                                                         *)
(* Rust's Option<T> is a sequence of length at most one.  Column indices   *)
(* are 0-based as in the source; TLA+ sequences are 1-based.               *)
(***************************************************************************)
EXTENDS Integers, Sequences, FiniteSets, TLC

VARIABLES
    grid_data,        \* the input: GridData.row_data, see Grids below
    target,           \* the consumer: "any" shape, "records" (Vec<struct of text>), "nested" or "lists"
    pc,               \* "start" | "running" | "ok" | "err" | "panic"
    rows,             \* Deserializer.rows: the row the iterator is at, if any
    rows_rest,        \* ... and how many rows it will yield after that one
    types,            \* Deserializer.types: column -> Option<field name>
    key_idx,          \* Deserializer.key_idx: Option<usize>
    row_idx,          \* Deserializer.row_idx
    cur_type,         \* Deserializer.cur_type: Option<&str>
    parsing_enum,     \* Deserializer.parsing_enum
    stack,            \* handlers in progress, innermost last
    ret,              \* the last result of a handler, until the next one starts
    out,              \* what a "records" consumer has built so far
    unchecked         \* an overflow has wrapped: the build has no overflow checks

vars == <<grid_data, target, pc, rows, rows_rest, types, key_idx,
          row_idx, cur_type, parsing_enum, stack, ret, out, unchecked>>

de == <<rows, rows_rest, types, key_idx, row_idx, cur_type, parsing_enum>>

----------------------------------------------------------------------------
(* Bounds of the model.                                                    *)

MaxCols == 2
MaxRows == 2

(* usize is 64 bits wide on the targets of the crate.  TLC's integers have *)
(* 32 bits, so the width is scaled down; the only overflow of the source   *)
(* is 0 - 1 at de.rs:507, which wraps to the largest value at any width.   *)
UsizeBits == 16

UsizeModulus == 2 ^ UsizeBits

----------------------------------------------------------------------------
(* Option                                                                  *)

None == <<>>

Some(v) == <<v>>

is_some(o) == o # <<>>

is_none(o) == o = <<>>

unwrap(o) == o[1]

----------------------------------------------------------------------------
(* The cell model: google_sheets4::api::{CellData, ExtendedValue} as far   *)
(* as de.rs reads them.  Numbers are f64 values in units of one half, so   *)
(* that 15 is 7.5 and the integer casts have something to truncate.        *)

ExtendedValue(b, e, f, n, s) ==
    [bool_value |-> b, error_value |-> e, formula_value |-> f,
     number_value |-> n, string_value |-> s]

CellData(ev, fv, ty) ==
    [effective_value |-> ev, formatted_value |-> fv, number_format_type |-> ty]

CellDefault == CellData(None, None, None)

string_cell(s) ==
    CellData(Some(ExtendedValue(None, None, None, None, Some(s))), Some(s), None)

number_cell(n, shown, ty) ==
    CellData(Some(ExtendedValue(None, None, None, Some(n), None)), Some(shown), ty)

bool_cell(b, shown) ==
    CellData(Some(ExtendedValue(Some(b), None, None, None, None)), Some(shown), None)

date_cell(n, shown, ty) == number_cell(n, shown, Some(ty))

----------------------------------------------------------------------------
(* Results.  A result is what a handler hands to the consumer: the value   *)
(* it passes to the visitor, Ok(None) of next_key_seed/next_element_seed   *)
(* ("end"), or an Error of src/src/error.rs.  op names the handler.        *)

Res(op, tag) ==
    [op |-> op, tag |-> tag, s |-> "", n |-> 0, b |-> FALSE, err |-> "",
     ctx_key |-> None, ctx_row |-> 0, found |-> None, scanned |-> 0]

NoResult == Res("", "nothing")

visit_bool(op, b) == [Res(op, "bool") EXCEPT !.b = b]

visit_f64(op, n) == [Res(op, "f64") EXCEPT !.n = n]

visit_i64(op, n) == [Res(op, "i64") EXCEPT !.n = n]

visit_borrowed_str(op, s) == [Res(op, "str") EXCEPT !.s = s]

visit_unit(op) == Res(op, "unit")

visit_none(op) == Res(op, "none")

visit_some(op) == Res(op, "some")

OkValue(op) == Res(op, "value")

OkEnd(op) == Res(op, "end")

MissingValue(op) ==
    [Res(op, "err") EXCEPT !.err = "MissingValue", !.ctx_key = key_idx,
                           !.ctx_row = row_idx]

NotNumber(op, found) ==
    [Res(op, "err") EXCEPT !.err = "NotNumber", !.found = found]

NotBool(op) == [Res(op, "err") EXCEPT !.err = "NotBool"]

ZeroRows(op) == [Res(op, "err") EXCEPT !.err = "ZeroRows"]

Message(op, msg) == [Res(op, "err") EXCEPT !.err = "Message", !.s = msg]

is_err(r) == r.tag = "err"

----------------------------------------------------------------------------
(* Reading the grid at the cursor: impl Deserializer, de.rs:89-164.        *)

slice_get(row, idx) == IF idx < Len(row) THEN Some(row[idx + 1]) ELSE None

(* rows.peek().expect(..): aborts the process when no row is left.         *)
peek_panics == rows = <<>>

get_cur_row_data == Head(rows)

(* key_idx.and_then(..): the row is only looked at when key_idx is set.    *)
cur_cell_panics == is_some(key_idx) /\ peek_panics

(* A cell lookup that falls back on column 0 at row granularity.           *)
get_cur_cell_data_first_column ==
    IF rows = <<>> THEN None
    ELSE slice_get(Head(rows), IF is_none(key_idx) THEN 0 ELSE unwrap(key_idx))

get_cur_cell_data ==
    IF is_none(key_idx) THEN None
    ELSE slice_get(get_cur_row_data, unwrap(key_idx))

get_cur_effective_value ==
    IF is_none(get_cur_cell_data) THEN None
    ELSE unwrap(get_cur_cell_data).effective_value

deserialize_number(op) ==
    LET effective_value == get_cur_effective_value IN
    IF is_none(effective_value) THEN MissingValue(op)
    ELSE IF is_none(unwrap(effective_value).number_value)
         THEN NotNumber(op, unwrap(effective_value).string_value)
         ELSE visit_f64(op, unwrap(unwrap(effective_value).number_value))

deserialize_bool_value(op) ==
    LET effective_value == get_cur_effective_value IN
    IF is_none(effective_value) THEN MissingValue(op)
    ELSE IF is_none(unwrap(effective_value).bool_value)
         THEN NotBool(op)
         ELSE visit_bool(op, unwrap(unwrap(effective_value).bool_value))

deserialize_formatted_value(op) ==
    IF is_none(get_cur_cell_data) THEN MissingValue(op)
    ELSE IF is_none(unwrap(get_cur_cell_data).formatted_value)
         THEN MissingValue(op)
         ELSE visit_borrowed_str(op, unwrap(unwrap(get_cur_cell_data).formatted_value))

(* `as i64` on an f64: truncation toward zero (numbers are in halves).     *)
as_i64(n) == IF n >= 0 THEN n \div 2 ELSE -((-n) \div 2)

(* A fold that looks at the first cell of the row only.                    *)
row_is_empty_first_cell(row) ==
    Len(row) = 0 \/ is_none(row[1].effective_value)

(* The fold of deserialize_any and deserialize_option, de.rs:177-180.      *)
row_is_empty(row) ==
    \A i \in 1..Len(row) : is_none(row[i].effective_value)

----------------------------------------------------------------------------
(* The decode protocol.  A frame is one engine handler that has handed     *)
(* control to the consumer: hook names the handler that resumes when the   *)
(* consumer is done ("top" from_grid_data, "elem" next_element_seed,       *)
(* "key" next_key_seed, "val" next_value_seed, "variant" variant_seed,     *)
(* "newtype" newtype_variant_seed), and mode says what the consumer holds: *)
(*   "de"      a &mut Deserializer, on which it makes one request          *)
(*   "seq"     a SeqAccess (inside visit_seq)                              *)
(*   "map"     a MapAccess, a key is due; "mapv" its value is due;         *)
(*   "mapend"  a MapAccess that has reported the end of the map            *)
(*   "enum"    an EnumAccess; "va" the VariantAccess it turned into        *)
(*   "done"    nothing more: the visitor has returned the result ret       *)
(* The visitors are serde's: they pass every error on (the ? operator).    *)

(* Under a typed consumer a frame also keeps the cursor as it was when its *)
(* handler was called: row_idx, the number of rows the iterator had left,  *)
(* and key_idx.  Under the free consumer "any" it keeps none of them.      *)
Frame(hook, mode) ==
    IF target = "any"
    THEN [hook |-> hook, mode |-> mode,
          row_idx |-> 0, rows_left |-> 0, key_idx |-> <<>>]
    ELSE [hook |-> hook, mode |-> mode,
          row_idx |-> row_idx, rows_left |-> Len(rows) + rows_rest,
          key_idx |-> key_idx]

MaxDepth == 3

top_frame == stack[Len(stack)]

set_mode(m) == [stack EXCEPT ![Len(stack)].mode = m]

push(hook) == Append(stack, Frame(hook, "de"))

holds(mode) == pc = "running" /\ stack # <<>> /\ top_frame.mode = mode

(* What a consumer of shape "records", Vec<struct of text fields>, asks    *)
(* at a &mut Deserializer: serde's Vec asks for a sequence, the derived    *)
(* struct for a struct, its field visitor for an identifier, String for a  *)
(* string.  A consumer of shape "any" may ask for anything.                *)
records_request(hook) ==
    CASE hook = "top" -> "deserialize_seq"
      [] hook = "elem" -> "deserialize_map"
      [] hook = "key" -> "deserialize_identifier"
      [] hook = "val" -> "deserialize_str"
      [] OTHER -> "nothing"

(* What a consumer of shape "nested", a struct whose fields are each a Vec *)
(* of structs of text fields, asks: a struct at the top, and for each of   *)
(* its values a sequence of structs of strings.                            *)
nested_request(hook, depth) ==
    CASE hook = "top" -> "deserialize_map"
      [] hook = "elem" -> "deserialize_map"
      [] hook = "key" -> "deserialize_identifier"
      [] hook = "val" -> IF depth = 2 THEN "deserialize_seq" ELSE "deserialize_str"
      [] OTHER -> "nothing"

(* What a consumer of shape "lists", Vec<Vec<struct of text fields>>,      *)
(* asks: a sequence at the top, a sequence for each of its elements, and a *)
(* struct of strings for each element of those.                            *)
lists_request(hook, depth) ==
    CASE hook = "top" -> "deserialize_seq"
      [] hook = "elem" -> IF depth = 2 THEN "deserialize_seq" ELSE "deserialize_map"
      [] hook = "key" -> "deserialize_identifier"
      [] hook = "val" -> "deserialize_str"
      [] OTHER -> "nothing"

(* The deepest nesting of handlers followed: the consumers "nested" and    *)
(* "lists" need one handler more than the others.                          *)
depth_limit == IF target \in {"nested", "lists"} THEN MaxDepth + 1 ELSE MaxDepth

(* A map key is asked for as an identifier (a derived struct), as a string *)
(* (a map keyed by strings) or as any value (a self-describing target); a  *)
(* variant tag as an identifier (a derived enum).                          *)
asked_at(hook) ==
    CASE hook = "key" -> {"deserialize_identifier", "deserialize_str", "deserialize_any"}
      [] hook = "variant" -> {"deserialize_identifier"}
      [] OTHER -> {"deserialize_any", "deserialize_bool", "deserialize_i64",
                   "deserialize_f64", "deserialize_char", "deserialize_str",
                   "deserialize_option", "deserialize_unit", "deserialize_seq",
                   "deserialize_map", "deserialize_enum", "deserialize_identifier"}

requests(op) ==
    /\ holds("de")
    /\ op \in asked_at(top_frame.hook)
    /\ target = "records" => records_request(top_frame.hook) = op
    /\ target = "nested" => nested_request(top_frame.hook, Len(stack)) = op
    /\ target = "lists" => lists_request(top_frame.hook, Len(stack)) = op

(* The handler at the top of the stack finishes with result r.             *)
finish(r) ==
    /\ stack' = set_mode("done")
    /\ ret' = r

(* An expect() fails or an overflow check trips: the process aborts.       *)
panic ==
    /\ pc' = "panic"
    /\ stack' = <<>>
    /\ UNCHANGED <<grid_data, target, unchecked, de, ret, out>>

frame_only == UNCHANGED <<grid_data, target, unchecked, pc, de, out>>

----------------------------------------------------------------------------
(* from_grid_data, de.rs:58-87.                                            *)

(* A data row with as many cells as the header, each with formatted text.  *)
full_text(row) ==
    /\ Len(row) = Len(unwrap(unwrap(grid_data).header))
    /\ \A i \in 1..Len(row) : is_some(row[i].formatted_value)

header_index(header) ==
    [i \in 1..Len(header) |-> header[i].formatted_value]

SeqsUpTo(S, n) == UNION {[1..k -> S] : k \in 0..n}

error_cell(shown) ==
    CellData(Some(ExtendedValue(None, Some("e"), None, None, None)), Some(shown), None)

formula_cell(shown) ==
    CellData(Some(ExtendedValue(None, None, Some("f"), None, None)), Some(shown), None)

RichCells ==
    {CellDefault, string_cell("x"), number_cell(15, "7.5", None),
     number_cell(15, "$7.50", Some("CURRENCY")),
     date_cell(90585, "2024-01-01", "DATE"), date_cell(1, "12:00", "TIME"),
     date_cell(90586, "2024-01-01 12:00", "DATE_TIME"),
     bool_cell(TRUE, "TRUE"), error_cell("#DIV/0!"), formula_cell("=A1"),
     CellData(Some(ExtendedValue(Some(FALSE), None, None, Some(2), None)), Some("FALSE"), None),
     CellData(Some(ExtendedValue(None, Some("e"), None, Some(2), None)), Some("#N/A"), None),
     CellData(Some(ExtendedValue(None, None, Some("f"), Some(2), Some("x"))), Some("=A1"), None),
     CellData(Some(ExtendedValue(None, None, None, Some(2), Some("x"))), Some("1"), None),
     CellData(Some(ExtendedValue(None, None, None, None, None)), None, None),
     CellData(None, Some("shown"), None)}

(* The rows a data row of the grid may be: row_data names the kind of its  *)
(* cells and the longest row.                                              *)
cells_of(kind) ==
    CASE kind = "plain" -> {CellDefault, string_cell("x")}
      [] kind = "text" -> {CellDefault, string_cell("x"), string_cell("y"),
                           number_cell(15, "7.5", None)}
      [] kind = "rich" -> RichCells

data_row_set ==
    SeqsUpTo(cells_of(unwrap(grid_data).cells), unwrap(grid_data).max_len)

(* An iterator that ends after its first row.                              *)
rows_next_fused ==
    rows' = <<>> /\ rows_rest' = 0

(* Iterator::next on the rows of the grid: the iterator moves to the next  *)
(* data row, which is drawn here, or to its end.                           *)
rows_next ==
    IF rows_rest = 0
    THEN rows' = <<>> /\ UNCHANGED rows_rest
    ELSE /\ rows_rest' = rows_rest - 1
         /\ \E r \in data_row_set : rows' = <<r>>

from_grid_data ==
    /\ pc = "start"
    /\ UNCHANGED <<grid_data, target, unchecked>>
    /\ IF is_none(grid_data) \/ is_none(unwrap(grid_data).header)
       THEN /\ pc' = "err"
            /\ ret' = ZeroRows("from_grid_data")
            /\ UNCHANGED <<de, stack, out>>
       ELSE /\ pc' = "running"
            /\ IF unwrap(grid_data).data_rows = 0
               THEN rows' = <<>> /\ rows_rest' = 0
               ELSE /\ rows_rest' = unwrap(grid_data).data_rows - 1
                    /\ \E r \in data_row_set : rows' = <<r>>
            /\ out' = IF target = "records"
                      THEN [out EXCEPT !.text = rows' = <<>> \/ full_text(rows'[1])]
                      ELSE out
            /\ types' = header_index(unwrap(unwrap(grid_data).header))
            /\ key_idx' = None
            /\ row_idx' = 1
            /\ cur_type' = None
            /\ parsing_enum' = FALSE
            /\ stack' = <<Frame("top", "de")>>
            /\ ret' = NoResult

----------------------------------------------------------------------------
(* impl de::Deserializer, de.rs:166-489.                                   *)

(* A match that looks for a number before anything else.                   *)
any_cell_result_number_first(op) ==
    LET ev == get_cur_effective_value IN
    IF is_none(ev) THEN visit_none(op)
    ELSE IF is_some(unwrap(ev).number_value)
         THEN visit_f64(op, unwrap(unwrap(ev).number_value))
    ELSE IF is_some(unwrap(ev).bool_value)
         THEN visit_bool(op, unwrap(unwrap(ev).bool_value))
    ELSE IF is_some(unwrap(ev).string_value)
         THEN visit_borrowed_str(op, unwrap(unwrap(ev).string_value))
    ELSE deserialize_formatted_value(op)

(* The match of deserialize_any at a cell, de.rs:187-223.                  *)
any_cell_result(op) ==
    LET ev == get_cur_effective_value
        ty == unwrap(get_cur_cell_data).number_format_type
    IN  IF is_none(ev) THEN visit_none(op)
        ELSE IF is_some(unwrap(ev).bool_value)
             THEN visit_bool(op, unwrap(unwrap(ev).bool_value))
        ELSE IF is_some(unwrap(ev).error_value)
             THEN deserialize_formatted_value(op)
        ELSE IF is_some(unwrap(ev).formula_value)
             THEN deserialize_formatted_value(op)
        ELSE IF is_some(unwrap(ev).number_value)
             THEN IF ty \in {Some("DATE"), Some("TIME"), Some("DATE_TIME")}
                  THEN deserialize_formatted_value(op)
                  ELSE visit_f64(op, unwrap(unwrap(ev).number_value))
        ELSE IF is_some(unwrap(ev).string_value)
             THEN visit_borrowed_str(op, unwrap(unwrap(ev).string_value))
        ELSE visit_none(op)

(* The row branch shared by deserialize_any and deserialize_option:        *)
(* visit_none, or visit_some(self), which hands the same deserializer on.  *)
row_option(op) ==
    IF row_is_empty(get_cur_row_data)
    THEN finish(visit_none(op))
    ELSE /\ ret' = visit_some(op)
         /\ UNCHANGED stack

deserialize_any ==
    /\ requests("deserialize_any")
    /\ IF is_none(key_idx)
       THEN IF peek_panics THEN panic
            ELSE row_option("deserialize_any") /\ frame_only
       ELSE IF cur_cell_panics THEN panic
            ELSE finish(any_cell_result("deserialize_any")) /\ frame_only

deserialize_bool ==
    /\ requests("deserialize_bool")
    /\ IF cur_cell_panics THEN panic
       ELSE finish(deserialize_bool_value("deserialize_bool")) /\ frame_only

(* deserialize_i8 .. deserialize_u64: the number, cast.                    *)
int_result(op) ==
    LET r == deserialize_number(op) IN
    IF is_err(r) THEN r ELSE visit_i64(op, as_i64(r.n))

deserialize_i64 ==
    /\ requests("deserialize_i64")
    /\ IF cur_cell_panics THEN panic
       ELSE finish(int_result("deserialize_i64")) /\ frame_only

deserialize_f64 ==
    /\ requests("deserialize_f64")
    /\ IF cur_cell_panics THEN panic
       ELSE finish(deserialize_number("deserialize_f64")) /\ frame_only

(* deserialize_char, deserialize_bytes, deserialize_byte_buf.              *)
deserialize_char ==
    /\ requests("deserialize_char")
    /\ finish(Message("deserialize_char", "Char type not supported"))
    /\ frame_only

(* get_cur_cell_data().and_then(formatted_value).ok_or(MissingValue).      *)
str_result(op) ==
    IF is_none(get_cur_cell_data) THEN MissingValue(op)
    ELSE IF is_none(unwrap(get_cur_cell_data).formatted_value)
         THEN MissingValue(op)
         ELSE visit_borrowed_str(op, unwrap(unwrap(get_cur_cell_data).formatted_value))

(* deserialize_str; deserialize_string calls it.                           *)
deserialize_str ==
    /\ requests("deserialize_str")
    /\ IF cur_cell_panics THEN panic
       ELSE finish(str_result("deserialize_str")) /\ frame_only

(* An option that answers by the whole row also at a field.                *)
deserialize_option_by_row ==
    /\ requests("deserialize_option")
    /\ IF peek_panics THEN panic
       ELSE row_option("deserialize_option") /\ frame_only

deserialize_option ==
    /\ requests("deserialize_option")
    /\ IF is_none(key_idx)
       THEN IF peek_panics THEN panic
            ELSE row_option("deserialize_option") /\ frame_only
       ELSE IF cur_cell_panics THEN panic
            ELSE /\ frame_only
                 /\ IF is_some(get_cur_effective_value)
                    THEN ret' = visit_some("deserialize_option") /\ UNCHANGED stack
                    ELSE finish(visit_none("deserialize_option"))

(* deserialize_unit; deserialize_unit_struct calls it.                     *)
unit_result(op) ==
    IF is_none(get_cur_effective_value) THEN visit_unit(op) ELSE ZeroRows(op)

deserialize_unit ==
    /\ requests("deserialize_unit")
    /\ IF cur_cell_panics THEN panic
       ELSE finish(unit_result("deserialize_unit")) /\ frame_only

(* deserialize_seq, and deserialize_tuple(_struct) which call it:          *)
(* visitor.visit_seq(self).                                                *)
deserialize_seq ==
    /\ requests("deserialize_seq")
    /\ stack' = set_mode("seq")
    /\ ret' = NoResult
    /\ frame_only

(* deserialize_map, and deserialize_struct which calls it.                 *)
deserialize_map ==
    /\ requests("deserialize_map")
    /\ stack' = set_mode("map")
    /\ ret' = NoResult
    /\ frame_only

deserialize_enum ==
    /\ requests("deserialize_enum")
    /\ stack' = set_mode("enum")
    /\ ret' = NoResult
    /\ frame_only

identifier_result(op) ==
    IF parsing_enum
    THEN str_result(op)
    ELSE IF is_none(cur_type) THEN MissingValue(op)
         ELSE visit_borrowed_str(op, unwrap(cur_type))

deserialize_identifier ==
    /\ requests("deserialize_identifier")
    /\ IF parsing_enum /\ cur_cell_panics THEN panic
       ELSE finish(identifier_result("deserialize_identifier")) /\ frame_only

----------------------------------------------------------------------------
(* impl MapAccess, de.rs:491-533.                                          *)

(* types.get(&idx): Option<&Option<&str>>.                                 *)
types_get(t, idx) == IF idx < Len(t) THEN Some(t[idx + 1]) ELSE None

(* types.len() - 1 in usize: panics in a build with overflow checks (the   *)
(* debug profile) when the header is empty, and wraps to usize::MAX in a   *)
(* build without them (the release profile).  next_key_seed takes either, *)
(* until a subtraction has wrapped: one run is of one build, so from then  *)
(* on every overflow wraps.                                                *)
len_minus_one_overflows(t) == Len(t) = 0

wrapping_sub(a, b) == (a - b + UsizeModulus) % UsizeModulus

(* The while loop of de.rs:506-510.  Its condition holds only for an index *)
(* the map does not hold, so with an empty map every index up to the limit *)
(* passes it and the loop runs on to the limit.                            *)
RECURSIVE scan_header(_, _, _)
scan_header(t, new_idx, limit) ==
    IF is_none(types_get(t, new_idx)) /\ new_idx < limit
    THEN IF Len(t) = 0 THEN limit
         ELSE scan_header(t, new_idx + 1, limit)
    ELSE new_idx

(* let mut new_idx, de.rs:501-504.                                         *)
first_idx(k) == IF is_none(k) THEN 0 ELSE unwrap(k) + 1

(* The column next_key_seed settles on, before it looks at the row.        *)
next_idx(t, k) == scan_header(t, first_idx(k), wrapping_sub(Len(t), 1))

(* A match that takes a column without a header name for the key "".      *)
key_at_any_column(t, new_idx, row_len) ==
    IF new_idx >= row_len \/ is_none(types_get(t, new_idx)) THEN None
    ELSE IF is_some(unwrap(types_get(t, new_idx)))
         THEN Some(unwrap(unwrap(types_get(t, new_idx))))
         ELSE Some("")

(* The key of that column: Some(name), or None for Ok(None), given the     *)
(* length of the current row; de.rs:512-524.                               *)
key_at(t, new_idx, row_len) ==
    IF new_idx >= row_len THEN None
    ELSE IF is_some(types_get(t, new_idx)) /\ is_some(unwrap(types_get(t, new_idx)))
         THEN Some(unwrap(unwrap(types_get(t, new_idx))))
         ELSE None

(* A next_key_seed that rewinds the cursor to row granularity as it        *)
(* reports the end of the map.                                             *)
next_key_seed_rewinding ==
    /\ holds("map") \/ (holds("mapend") /\ target = "any")
    /\ \E overflow_checks \in (IF unchecked THEN {FALSE} ELSE BOOLEAN) :
       IF (len_minus_one_overflows(types) /\ overflow_checks) \/ peek_panics
       THEN panic
       ELSE LET new_idx == next_idx(types, key_idx)
                key == key_at(types, new_idx, Len(get_cur_row_data))
            IN  /\ UNCHANGED <<grid_data, target, pc, rows,
                               rows_rest, types, row_idx, parsing_enum, out>>
                /\ unchecked' = (unchecked \/ len_minus_one_overflows(types))
                /\ IF is_none(key)
                   THEN /\ stack' = set_mode("mapend")
                        /\ ret' = [OkEnd("next_key_seed") EXCEPT
                                       !.scanned = new_idx - first_idx(key_idx)]
                        /\ key_idx' = None
                        /\ cur_type' = None
                   ELSE /\ Len(stack) < depth_limit
                        /\ key_idx' = Some(new_idx)
                        /\ cur_type' = key
                        /\ stack' = push("key")
                        /\ ret' = NoResult

next_key_seed ==
    /\ holds("map") \/ (holds("mapend") /\ target = "any")
    /\ \E overflow_checks \in (IF unchecked THEN {FALSE} ELSE BOOLEAN) :
       IF (len_minus_one_overflows(types) /\ overflow_checks) \/ peek_panics
       THEN panic
       ELSE LET new_idx == next_idx(types, key_idx)
                key == key_at(types, new_idx, Len(get_cur_row_data))
            IN  /\ UNCHANGED <<grid_data, target, pc, rows,
                               rows_rest, types, row_idx, parsing_enum, out>>
                /\ unchecked' = (unchecked \/ len_minus_one_overflows(types))
                /\ IF is_none(key)
                   THEN /\ stack' = set_mode("mapend")
                        /\ ret' = [OkEnd("next_key_seed") EXCEPT
                                       !.scanned = new_idx - first_idx(key_idx)]
                        /\ UNCHANGED <<key_idx, cur_type>>
                   ELSE /\ Len(stack) < depth_limit
                        /\ key_idx' = Some(new_idx)
                        /\ cur_type' = key
                        /\ stack' = push("key")
                        /\ ret' = NoResult

(* What visit_map of a struct of text fields collects from a row, from     *)
(* key_idx k on: next_key_seed and next_value_seed in turn until the end   *)
(* of the map, each value read as deserialize_str reads it; failed when a  *)
(* value is a MissingValue error.                                          *)
RECURSIVE map_pairs(_, _, _, _)
map_pairs(t, row, k, acc) ==
    LET new_idx == next_idx(t, k)
        key == key_at(t, new_idx, Len(row))
    IN  IF is_none(key) THEN [failed |-> FALSE, pairs |-> acc]
        ELSE IF is_none(row[new_idx + 1].formatted_value)
             THEN [failed |-> TRUE, pairs |-> acc]
             ELSE map_pairs(t, row, Some(new_idx),
                            Append(acc, <<unwrap(key),
                                          unwrap(row[new_idx + 1].formatted_value)>>))

next_value_seed ==
    /\ holds("mapv")
    /\ Len(stack) < depth_limit
    /\ stack' = push("val")
    /\ ret' = NoResult
    /\ frame_only

----------------------------------------------------------------------------
(* impl SeqAccess, de.rs:535-563.                                          *)

next_element_seed ==
    /\ holds("seq")
    /\ UNCHANGED <<grid_data, target, unchecked, pc, rows, rows_rest, types,
                   row_idx, parsing_enum, out>>
    /\ IF rows = <<>>
       THEN /\ ret' = OkEnd("next_element_seed")
            /\ UNCHANGED <<key_idx, cur_type, stack>>
       ELSE /\ Len(stack) < depth_limit
            /\ key_idx' = None
            /\ cur_type' = None
            /\ stack' = push("elem")
            /\ ret' = NoResult

----------------------------------------------------------------------------
(* impl EnumAccess and VariantAccess for Enum, de.rs:581-631.              *)

variant_seed ==
    /\ holds("enum")
    /\ Len(stack) < depth_limit
    /\ parsing_enum' = TRUE
    /\ stack' = push("variant")
    /\ ret' = NoResult
    /\ UNCHANGED <<grid_data, target, unchecked, pc, rows, rows_rest, types,
                   key_idx, row_idx, cur_type, out>>

unit_variant ==
    /\ holds("va")
    /\ finish(visit_unit("unit_variant"))
    /\ frame_only

newtype_variant_seed ==
    /\ holds("va")
    /\ Len(stack) < depth_limit
    /\ stack' = push("newtype")
    /\ ret' = NoResult
    /\ frame_only

tuple_variant ==
    /\ holds("va")
    /\ finish(Message("tuple_variant", "Tuple variant not supported"))
    /\ frame_only

struct_variant ==
    /\ holds("va")
    /\ finish(Message("struct_variant", "Struct variant not supported"))
    /\ frame_only

----------------------------------------------------------------------------
(* The consumer's visitors return, and the handlers below them resume.     *)

(* A Vec visitor leaves visit_seq at the end of the sequence; a tuple      *)
(* visitor leaves it after the elements it wants.                          *)
visit_seq_return ==
    /\ holds("seq")
    /\ target # "any" => ret = OkEnd("next_element_seed")
    /\ finish(OkValue("deserialize_seq"))
    /\ frame_only

(* A struct or map visitor leaves visit_map at the end of the map.         *)
visit_map_return ==
    /\ holds("mapend")
    /\ finish(OkValue("deserialize_map"))
    /\ frame_only

(* The stack with its top frame gone and the frame below told the result:  *)
(* an error makes its visitor return at once.                              *)
resume(mode) ==
    LET below == SubSeq(stack, 1, Len(stack) - 1) IN
    [below EXCEPT ![Len(below)].mode = IF is_err(ret) THEN "done" ELSE mode]

returns(hook) == holds("done") /\ top_frame.hook = hook

(* What handler op hands on: the error, or the value the seed produced.    *)
passes(op) == IF is_err(ret) THEN [ret EXCEPT !.op = op] ELSE OkValue(op)

(* T::deserialize returns to from_grid_data, which returns its result.     *)
from_grid_data_return ==
    /\ returns("top")
    /\ pc' = IF is_err(ret) THEN "err" ELSE "ok"
    /\ stack' = <<>>
    /\ UNCHANGED <<grid_data, target, unchecked, de, ret, out>>

(* next_element_seed after seed.deserialize, de.rs:554-557.  The Vec of a  *)
(* "records" consumer takes the element.                                   *)
next_element_seed_return ==
    /\ returns("elem")
    /\ rows_next
    /\ row_idx' = row_idx + 1
    /\ stack' = resume("seq")
    /\ ret' = passes("next_element_seed")
    /\ out' = IF target = "records"
              THEN [n |-> IF is_err(ret) THEN out.n ELSE out.n + 1,
                    rec |-> <<>>, key |-> None,
                    text |-> out.text /\ (rows' = <<>> \/ full_text(rows'[1]))]
              ELSE out
    /\ UNCHANGED <<grid_data, target, unchecked, pc, types, key_idx,
                   cur_type, parsing_enum>>

(* next_key_seed after seed.deserialize, de.rs:521: .map(Some).            *)
next_key_seed_return ==
    /\ returns("key")
    /\ stack' = resume("mapv")
    /\ ret' = passes("next_key_seed")
    /\ out' = IF target = "records" /\ ~is_err(ret)
              THEN [out EXCEPT !.key = Some(ret.s)]
              ELSE out
    /\ UNCHANGED <<grid_data, target, unchecked, pc, de>>

(* next_value_seed after seed.deserialize, de.rs:531.                      *)
next_value_seed_return ==
    /\ returns("val")
    /\ stack' = resume("map")
    /\ ret' = passes("next_value_seed")
    /\ out' = IF target = "records" /\ ~is_err(ret)
              THEN [out EXCEPT !.rec = Append(@, <<unwrap(out.key), ret.s>>),
                               !.key = None]
              ELSE out
    /\ UNCHANGED <<grid_data, target, unchecked, pc, de>>

(* variant_seed after seed.deserialize, de.rs:594-597: the ? returns an    *)
(* error before parsing_enum is reset.                                     *)
variant_seed_return ==
    /\ returns("variant")
    /\ parsing_enum' = IF is_err(ret) THEN parsing_enum ELSE FALSE
    /\ stack' = resume("va")
    /\ ret' = passes("variant_seed")
    /\ UNCHANGED <<grid_data, target, unchecked, pc, rows, rows_rest, types,
                   key_idx, row_idx, cur_type, out>>

(* newtype_variant_seed after seed.deserialize, de.rs:615; the enum        *)
(* visitor returns what it got.                                            *)
newtype_variant_seed_return ==
    /\ returns("newtype")
    /\ stack' = resume("done")
    /\ ret' = passes("newtype_variant_seed")
    /\ UNCHANGED <<grid_data, target, unchecked, pc, de, out>>

----------------------------------------------------------------------------
(* The inputs.                                                             *)

HeaderCells == {CellDefault, string_cell("a"), string_cell("b")}

(* GridData.row_data: absent, or the header row (absent in a grid of no    *)
(* rows), the number of data rows, the kind of their cells and the length  *)
(* of the longest of them.                                                 *)
(* The decoder reads the data rows through its iterator, one at a time and *)
(* never ahead of the row it is at, so each data row is drawn when the     *)
(* iterator reaches it (rows_next): the behaviours are those of drawing    *)
(* the whole grid first.                                                   *)
Grids(H, kind, cols) ==
    {None} \cup
    {Some([header |-> None, data_rows |-> 0, cells |-> kind, max_len |-> cols])} \cup
    {Some([header |-> Some(h), data_rows |-> n, cells |-> kind, max_len |-> cols]) :
        h \in SeqsUpTo(H, cols), n \in 0..MaxRows}

(* What a "records" consumer has built: the number of records in its Vec,  *)
(* the fields of the record under construction, the key waiting for its    *)
(* value; and whether every data row so far was full_text.                 *)
EmptyOut == [n |-> 0, rec |-> <<>>, key |-> None, text |-> TRUE]

InitWith(G, t) ==
    /\ grid_data \in G
    /\ target = t
    /\ pc = "start"
    /\ rows = <<>>
    /\ rows_rest = 0
    /\ types = <<>>
    /\ key_idx = None
    /\ row_idx = 0
    /\ cur_type = None
    /\ parsing_enum = FALSE
    /\ stack = <<>>
    /\ ret = NoResult
    /\ out = EmptyOut
    /\ unchecked = FALSE

Init == InitWith(Grids(HeaderCells, "plain", MaxCols), "any")

Next ==
    \/ from_grid_data
    \/ deserialize_any
    \/ deserialize_bool
    \/ deserialize_i64
    \/ deserialize_f64
    \/ deserialize_char
    \/ deserialize_str
    \/ deserialize_option
    \/ deserialize_unit
    \/ deserialize_seq
    \/ deserialize_map
    \/ deserialize_enum
    \/ deserialize_identifier
    \/ next_key_seed
    \/ next_value_seed
    \/ next_element_seed
    \/ variant_seed
    \/ unit_variant
    \/ newtype_variant_seed
    \/ tuple_variant
    \/ struct_variant
    \/ visit_seq_return
    \/ visit_map_return
    \/ from_grid_data_return
    \/ next_element_seed_return
    \/ next_key_seed_return
    \/ next_value_seed_return
    \/ variant_seed_return
    \/ newtype_variant_seed_return

Spec == Init /\ [][Next]_vars

(* One data row of one cell, of every kind of cell, under a named header.  *)
CellGrids ==
    {Some([header |-> Some(<<string_cell("a")>>), data_rows |-> 1,
           cells |-> "rich", max_len |-> 1])}

InitCell == InitWith(CellGrids, "any")

SpecCell == InitCell /\ [][Next]_vars

(* The decode of test_simple, de.rs:660-679: a Vec of a derived struct     *)
(* whose fields are Strings.                                               *)
InitRecords == InitWith(Grids(HeaderCells, "text", MaxCols), "records")

NextRecords ==
    \/ from_grid_data
    \/ deserialize_seq
    \/ deserialize_map
    \/ deserialize_identifier
    \/ deserialize_str
    \/ next_key_seed
    \/ next_value_seed
    \/ next_element_seed
    \/ visit_seq_return
    \/ visit_map_return
    \/ from_grid_data_return
    \/ next_element_seed_return
    \/ next_key_seed_return
    \/ next_value_seed_return

SpecRecords == InitRecords /\ [][NextRecords]_vars

(* A struct whose fields are each a Vec of structs of Strings.             *)
InitNested == InitWith(Grids(HeaderCells, "text", MaxCols), "nested")

SpecNested == InitNested /\ [][NextRecords]_vars

(* A Vec of Vecs of structs of Strings.                                    *)
InitLists == InitWith(Grids(HeaderCells, "text", MaxCols), "lists")

SpecLists == InitLists /\ [][NextRecords]_vars

----------------------------------------------------------------------------
(* What the claims speak of, read off the input and the cursor.            *)

HasHeader == is_some(grid_data) /\ is_some(unwrap(grid_data).header)

Header == unwrap(unwrap(grid_data).header)

DataRowCount == unwrap(grid_data).data_rows

(* The data rows the iterator has moved past.                              *)
RowsConsumed == DataRowCount - (Len(rows) + rows_rest)

CurrentRow == rows[1]

HeaderNamed(j) == Header[j].formatted_value # <<>>

Populated(cell) == cell.effective_value # <<>>

Decoding == pc \in {"running", "ok", "err", "panic"}

----------------------------------------------------------------------------
(* C1.  A grid whose header names every column and whose N data rows each  *)
(* have a cell with formatted text under every header column, decoded as a *)
(* sequence of records of text fields: the decode neither fails nor        *)
(* aborts; the record built from a data row has, in column order, the      *)
(* field named by header column j with the formatted text of cell j of     *)
(* that row; one record is built per data row, in the order of the rows,   *)
(* and the decode ends with N records.                                     *)

C1_RecordOfRow(row) ==
    [j \in 1..Len(Header) |->
        <<Header[j].formatted_value[1], row[j].formatted_value[1]>>]

C1_Pre ==
    /\ target = "records" /\ Decoding /\ HasHeader
    /\ \A j \in 1..Len(Header) : HeaderNamed(j)
    /\ out.text

C1_Decoded ==
    /\ pc # "err" /\ ret.tag # "err"
    /\ out.n = RowsConsumed
    /\ returns("elem") => out.rec = C1_RecordOfRow(CurrentRow)
    /\ pc = "ok" => out.n = DataRowCount

C1_RecordsDecoded == C1_Pre => (pc # "panic" /\ C1_Decoded)

(* The same, of the grids whose header has a column: these decode.         *)
C1_RecordsDecodedWithColumns == (C1_Pre /\ Len(Header) > 0) => (pc # "panic" /\ C1_Decoded)

C1_Witness ==
    /\ C1_Pre /\ returns("elem")
    /\ out.n = 1 /\ DataRowCount = 2 /\ rows_rest = 0
    /\ out.rec = <<<<"a", "7.5">>, <<"b", "y">>>>

----------------------------------------------------------------------------
(* C2.  An option requested at row granularity (key_idx is None) with a    *)
(* current data row: the answer is none exactly when no cell of that row   *)
(* has an effective value, and some otherwise; some hands on the same      *)
(* deserializer, and the request moves neither the rows, nor row_idx, nor  *)
(* key_idx.                                                                *)

C2_RowWithoutValues(row) == \A i \in 1..Len(row) : ~Populated(row[i])

C2_Answered ==
    (holds("de") /\ is_none(key_idx) /\ rows # <<>> /\ ret'.op = "deserialize_option") =>
        /\ pc' = "running"
        /\ ret'.tag = (IF C2_RowWithoutValues(CurrentRow) THEN "none" ELSE "some")
        /\ ret'.tag = "some" => stack' = stack
        /\ ret'.tag = "none" => stack' = set_mode("done")
        /\ UNCHANGED <<rows, rows_rest, row_idx, key_idx>>

C2_RowOptionTotal == [][C2_Answered]_vars

C2_Witness ==
    /\ holds("de") /\ is_none(key_idx) /\ rows # <<>>
    /\ ret = visit_some("deserialize_option")
    /\ Len(CurrentRow) = 2
    /\ ~Populated(CurrentRow[1]) /\ Populated(CurrentRow[2])

----------------------------------------------------------------------------
(* C3.  A grid of N data rows decoded as many records: every element       *)
(* request moves the iterator by one data row and row_idx with it, so the  *)
(* k-th element is decoded from the k-th data row; a decode that returns   *)
(* without error has yielded N elements; end-of-sequence is reported only  *)
(* when every data row has been passed, and every element request made     *)
(* then reports end-of-sequence and changes nothing.                       *)

C3_Rows ==
    (target = "records" /\ Decoding /\ HasHeader /\ pc # "panic") =>
        /\ row_idx - 1 = RowsConsumed
        /\ out.n = RowsConsumed \/ (out.n < RowsConsumed /\ (is_err(ret) \/ pc = "err"))
        /\ (ret.op = "next_element_seed" /\ ret.tag = "end") =>
               (rows = <<>> /\ rows_rest = 0 /\ out.n = DataRowCount)
        /\ pc = "ok" => out.n = DataRowCount

C3_AtEnd ==
    (holds("seq") /\ rows = <<>> /\ stack' = stack) =>
        /\ ret' = OkEnd("next_element_seed")
        /\ pc' = "running"
        /\ UNCHANGED <<de, out>>

----------------------------------------------------------------------------
(* C4.  A next-key call on a data row, under a header with a column, moves *)
(* key_idx to the nearest column at or after the one it starts from that   *)
(* has a header name and lies within the row, and yields that column's     *)
(* key; it reports end-of-map only when there is no such column.  Columns  *)
(* without a header name are passed over.                                  *)

C4_Min(S) == CHOOSE j \in S : \A k \in S : j <= k

C4_NamedAhead ==
    {j \in 0..(Len(Header) - 1) :
        /\ j >= first_idx(key_idx)
        /\ j < Len(CurrentRow)
        /\ HeaderNamed(j + 1)}

C4_NextKey ==
    (holds("map") /\ rows # <<>> /\ Len(Header) > 0 /\ stack' # stack) =>
        IF C4_NamedAhead = {}
        THEN ret'.tag = "end"
        ELSE /\ key_idx' = Some(C4_Min(C4_NamedAhead))
             /\ top_frame'.hook = "key"

C4_SkipsUnnamedColumns == [][C4_NextKey]_vars

----------------------------------------------------------------------------
(* C5.  key_idx is never set to a column whose header cell has no          *)
(* formatted text, and no key is yielded for such a column: whenever       *)
(* key_idx is set it is a column of the header that has a name, and        *)
(* cur_type is that name, whatever the data row holds.                     *)

C5_HeaderSkip ==
    (Decoding /\ HasHeader /\ is_some(key_idx)) =>
        /\ key_idx[1] < Len(Header)
        /\ HeaderNamed(key_idx[1] + 1)
        /\ cur_type = Header[key_idx[1] + 1].formatted_value

C5_Witness ==
    /\ holds("mapend") /\ HasHeader
    /\ ret.op = "next_key_seed" /\ ret.tag = "end"
    /\ key_idx = Some(0)
    /\ Len(Header) = 2 /\ ~HeaderNamed(2)
    /\ Len(CurrentRow) = 2 /\ Populated(CurrentRow[2])

----------------------------------------------------------------------------
(* C6.  Permuting the columns of the header and of a data row together     *)
(* leaves the set of (field name, value) pairs of the record decoded from  *)
(* the row as it was, also when some header columns have no name.          *)

C6_Perms(n) == {p \in [1..n -> 1..n] : \A i, j \in 1..n : p[i] = p[j] => i = j}

C6_Permuted(seq, p) == [i \in 1..Len(seq) |-> seq[p[i]]]

C6_Pairs(rec) == {rec[i] : i \in 1..Len(rec)}

C6_RowDecoded ==
    /\ target = "records" /\ returns("elem") /\ ~is_err(ret)
    /\ Len(CurrentRow) = Len(types) /\ Len(types) > 0
    /\ \A i \in 1..Len(CurrentRow) : CurrentRow[i].formatted_value # <<>>

C6_FieldOrderIndependent ==
    C6_RowDecoded =>
        \A p \in C6_Perms(Len(types)) :
            LET permuted == map_pairs(C6_Permuted(types, p), C6_Permuted(CurrentRow, p), None, <<>>)
            IN  /\ ~permuted.failed
                /\ C6_Pairs(permuted.pairs) = C6_Pairs(out.rec)

(* The record a "records" consumer has built from a row is map_pairs of    *)
(* the header index and the row.                                           *)
C6_PairsOfRow ==
    (target = "records" /\ returns("elem") /\ Len(types) > 0) =>
        LET decoded == map_pairs(types, CurrentRow, None, <<>>)
        IN  /\ decoded.failed = is_err(ret)
            /\ decoded.pairs = out.rec

----------------------------------------------------------------------------
(* C7.  The key a next-key call yields is the header name of the column    *)
(* key_idx was moved to, whether the consumer asks for the key as an       *)
(* identifier, as a string or as any value; it is never read from the data *)
(* cell of that column.                                                    *)

C7_KeyIsHeaderName ==
    (returns("key") /\ ~is_err(ret)) =>
        /\ ret.tag = "str"
        /\ Some(ret.s) = Header[key_idx[1] + 1].formatted_value

----------------------------------------------------------------------------
(* C8.  A cell with a number and the number format DATE, TIME or DATE_TIME *)
(* is never handed to the consumer as a number: every request for any      *)
(* value, for a string, for an integer or for a float that succeeds at     *)
(* such a cell produces the cell's formatted text.                         *)

C8_AtDateCell ==
    /\ returns("val") /\ key_idx = Some(0) /\ rows # <<>>
    /\ Populated(CurrentRow[1])
    /\ CurrentRow[1].effective_value[1].number_value # <<>>
    /\ CurrentRow[1].number_format_type \in {<<"DATE">>, <<"TIME">>, <<"DATE_TIME">>}

C8_DateNeverNumeric ==
    (/\ C8_AtDateCell
     /\ ~is_err(ret)
     /\ ret.op \in {"deserialize_any", "deserialize_str",
                    "deserialize_i64", "deserialize_f64"}) =>
        /\ ret.tag = "str"
        /\ Some(ret.s) = CurrentRow[1].formatted_value

----------------------------------------------------------------------------
(* C9.  Once the variant of an enum is known, asking for a newtype, tuple  *)
(* or struct payload fails and produces no value; only the unit payload    *)
(* is given.                                                               *)

C9_PayloadUnsupported ==
    (holds("done") /\ ret.op \in {"newtype_variant_seed", "tuple_variant",
                                  "struct_variant"}) =>
        is_err(ret)

----------------------------------------------------------------------------
(* C10.  Under a header row of no columns the header index is empty, and   *)
(* the first next-key call on a data row reports end-of-map: it does not   *)
(* abort and returns no error.                                             *)

C10_FirstNextKey ==
    (/\ holds("map") /\ HasHeader /\ Len(Header) = 0
     /\ rows # <<>> /\ is_none(key_idx)) =>
        /\ types = <<>>
        /\ pc' = "running"
        /\ ret'.op = "next_key_seed" /\ ret'.tag = "end"

C10_EmptyHeaderEndsMap == [][C10_FirstNextKey]_vars

----------------------------------------------------------------------------
(* C11.  A decode at row granularity (a next-key of a record or map, an    *)
(* option, or any value, with key_idx None) requested when no data row     *)
(* remains returns the ZeroRows error: it does not abort and yields no     *)
(* value.                                                                  *)

C11_NoRowLeft ==
    /\ HasHeader /\ Len(Header) > 0
    /\ rows = <<>> /\ is_none(key_idx)
    /\ holds("map") \/ holds("de")

C11_RowDecode ==
    C11_NoRowLeft =>
        /\ pc' = "running"
        /\ ret'.op \in {"next_key_seed", "deserialize_option", "deserialize_any"} =>
               ret' = ZeroRows(ret'.op)

C11_MissingRowIsZeroRows == [][C11_RowDecode]_vars

----------------------------------------------------------------------------
(* C12.  A unit requested at row granularity (key_idx None) on a current   *)
(* row succeeds only if no cell of the row has an effective value; with a  *)
(* populated cell in the row it fails with an error.                       *)

C12_UnitOfRow ==
    (/\ holds("done") /\ ret.op = "deserialize_unit"
     /\ HasHeader /\ Len(Header) > 0
     /\ is_none(key_idx) /\ rows # <<>>
     /\ \E i \in 1..Len(CurrentRow) : Populated(CurrentRow[i])) =>
        is_err(ret)

----------------------------------------------------------------------------
(* C13.  A data row without any effective value (a row of no cells         *)
(* included) decoded as a record does not complete: its decode returns an  *)
(* error.                                                                  *)

C13_EmptyRowRecord ==
    (/\ holds("done") /\ top_frame.hook = "top" /\ ret.op = "deserialize_map"
     /\ HasHeader /\ Len(Header) > 0
     /\ \A j \in 1..Len(Header) : HeaderNamed(j)
     /\ row_idx = 1 /\ rows # <<>>
     /\ \A i \in 1..Len(CurrentRow) : ~Populated(CurrentRow[i])) =>
        /\ is_err(ret)
        /\ ret.err \in {"ZeroRows", "MissingValue"}

----------------------------------------------------------------------------
(* C14.  Any value requested at a field: a cell without effective value    *)
(* gives none; otherwise the first present of bool, error, formula,        *)
(* number, string decides, whatever else is present: a bool gives the      *)
(* bool; an error or a formula gives the formatted text; a number gives    *)
(* the float, or the formatted text under the formats DATE, TIME and       *)
(* DATE_TIME; a string gives the string; none of them gives none.  Where   *)
(* the formatted text is due and the cell has none, the request fails with *)
(* MissingValue.                                                           *)

C14_Cell == CurrentRow[key_idx[1] + 1]

C14_Shown(r) ==
    IF C14_Cell.formatted_value = <<>>
    THEN r.tag = "err" /\ r.err = "MissingValue"
    ELSE r.tag = "str" /\ <<r.s>> = C14_Cell.formatted_value

C14_Resolved(r) ==
    LET ev == C14_Cell.effective_value IN
    IF ev = <<>> THEN r.tag = "none"
    ELSE IF ev[1].bool_value # <<>> THEN r.tag = "bool" /\ <<r.b>> = ev[1].bool_value
    ELSE IF ev[1].error_value # <<>> \/ ev[1].formula_value # <<>> THEN C14_Shown(r)
    ELSE IF ev[1].number_value # <<>>
         THEN IF C14_Cell.number_format_type \in {<<"DATE">>, <<"TIME">>, <<"DATE_TIME">>}
              THEN C14_Shown(r)
              ELSE r.tag = "f64" /\ <<r.n>> = ev[1].number_value
    ELSE IF ev[1].string_value # <<>> THEN r.tag = "str" /\ <<r.s>> = ev[1].string_value
    ELSE r.tag = "none"

C14_AnyPrecedence ==
    (/\ holds("done") /\ ret.op = "deserialize_any"
     /\ is_some(key_idx) /\ rows # <<>> /\ key_idx[1] < Len(CurrentRow)) =>
        C14_Resolved(ret)

C14_Witness ==
    /\ holds("done") /\ top_frame.hook = "val" /\ ret.op = "deserialize_any"
    /\ key_idx = Some(0) /\ rows # <<>>
    /\ Len(CurrentRow) = 1 /\ Populated(CurrentRow[1])
    /\ CurrentRow[1].effective_value[1].bool_value = <<FALSE>>
    /\ CurrentRow[1].effective_value[1].number_value = <<2>>
    /\ ret.tag = "bool" /\ ret.b = FALSE

----------------------------------------------------------------------------
(* C15.  A bool or a number requested at a cell fails with MissingValue    *)
(* exactly when the cell has no effective value; at a populated cell it    *)
(* succeeds only if the first present of bool, error, formula, number,     *)
(* string is of the kind requested, and fails with NotBool or NotNumber    *)
(* otherwise: a number requested at a cell with a bool, an error or a      *)
(* formula besides its number fails with NotNumber.                        *)

C15_Kind(ev) ==
    IF ev.bool_value # <<>> THEN "bool"
    ELSE IF ev.error_value # <<>> THEN "error"
    ELSE IF ev.formula_value # <<>> THEN "formula"
    ELSE IF ev.number_value # <<>> THEN "number"
    ELSE IF ev.string_value # <<>> THEN "string"
    ELSE "nothing"

C15_Asked(op) == IF op = "deserialize_bool" THEN "bool" ELSE "number"

C15_TypedScalar ==
    (/\ holds("done")
     /\ ret.op \in {"deserialize_bool", "deserialize_i64", "deserialize_f64"}
     /\ is_some(key_idx) /\ rows # <<>> /\ key_idx[1] < Len(CurrentRow)) =>
        LET ev == C14_Cell.effective_value IN
        IF ev = <<>> THEN ret.tag = "err" /\ ret.err = "MissingValue"
        ELSE IF C15_Kind(ev[1]) = C15_Asked(ret.op) THEN ret.tag # "err"
        ELSE /\ ret.tag = "err"
             /\ ret.err = (IF ret.op = "deserialize_bool" THEN "NotBool" ELSE "NotNumber")

----------------------------------------------------------------------------
(* C18.  An option requested at a field (key_idx is Some(c)) with a        *)
(* current row: the answer is none exactly when the row has no cell c, or  *)
(* cell c has no effective value, whatever the other cells hold; some      *)
(* hands on the same deserializer at the same column.                      *)

C18_CellAbsent ==
    \/ key_idx[1] >= Len(CurrentRow)
    \/ ~Populated(CurrentRow[key_idx[1] + 1])

C18_Answered ==
    (holds("de") /\ is_some(key_idx) /\ rows # <<>> /\ ret'.op = "deserialize_option") =>
        /\ pc' = "running"
        /\ ret'.tag = (IF C18_CellAbsent THEN "none" ELSE "some")
        /\ ret'.tag = "some" => stack' = stack
        /\ ret'.tag = "none" => stack' = set_mode("done")
        /\ UNCHANGED <<rows, rows_rest, row_idx, key_idx>>

C18_FieldOption == [][C18_Answered]_vars

C18_Witness ==
    /\ holds("done") /\ ret = visit_none("deserialize_option")
    /\ key_idx = Some(1) /\ rows # <<>> /\ Len(CurrentRow) = 2
    /\ Populated(CurrentRow[1]) /\ ~Populated(CurrentRow[2])

----------------------------------------------------------------------------
(* C19.  A MissingValue or NotNumber error carries the position of the     *)
(* read that failed: row_idx and key_idx as they are at that read.         *)

C19_ErrorsLocated ==
    (/\ holds("done") /\ is_err(ret)
     /\ ret.err \in {"MissingValue", "NotNumber"}
     /\ ret.op \in {"deserialize_any", "deserialize_bool", "deserialize_i64",
                    "deserialize_f64", "deserialize_str", "deserialize_identifier"}) =>
        /\ ret.ctx_row = row_idx
        /\ ret.ctx_key = key_idx

(* The same of MissingValue alone.                                         *)
C19_MissingValueLocated ==
    (/\ holds("done") /\ is_err(ret) /\ ret.err = "MissingValue"
     /\ ret.op \in {"deserialize_any", "deserialize_bool", "deserialize_i64",
                    "deserialize_f64", "deserialize_str", "deserialize_identifier"}) =>
        /\ ret.ctx_row = row_idx
        /\ ret.ctx_key = key_idx

----------------------------------------------------------------------------
(* C20.  parsing_enum is true only while variant_seed is resolving the     *)
(* variant of an enum: once variant_seed has returned, with a value or     *)
(* with an error, it is false.                                             *)

C20_FlagOnlyInVariantSeed ==
    (pc = "running" /\ parsing_enum) =>
        \E i \in 1..Len(stack) : stack[i].hook = "variant"

----------------------------------------------------------------------------
(* C16.  The cursor only moves forward: the iterator never goes back and   *)
(* row_idx never decreases; between two moves of the iterator key_idx,     *)
(* once set, only takes strictly larger values; and key_idx becomes None   *)
(* only when next_element_seed starts an element.                          *)

(* Step by step: the rows left and row_idx; key_idx from Some to Some      *)
(* grows, on the same row; key_idx turns None only as an element starts.   *)
C16_Step ==
    pc = "running" =>
        /\ Len(rows') + rows_rest' <= Len(rows) + rows_rest
        /\ row_idx' >= row_idx
        /\ (is_some(key_idx) /\ is_some(key_idx') /\ key_idx' # key_idx) =>
               (key_idx'[1] > key_idx[1] /\ rows' = rows)
        /\ (is_some(key_idx) /\ is_none(key_idx')) =>
               (holds("seq") /\ stack' = push("elem"))

C16_StepsForward == [][C16_Step]_vars

(* A next_value_seed in progress was called with key_idx on a column of    *)
(* the row then current.  If a handler above it was called with another    *)
(* key_idx, then key_idx has changed since; while the iterator has not     *)
(* moved, key_idx if set is then on a later column.                        *)
C16_NoColumnBehind ==
    \A i, j \in 1..Len(stack) :
        (/\ target # "any"
         /\ i < j
         /\ stack[i].hook = "val"
         /\ stack[i].rows_left = Len(rows) + rows_rest
         /\ stack[j].key_idx # stack[i].key_idx
         /\ is_some(key_idx)) =>
            key_idx[1] > stack[i].key_idx[1]

C16_CursorMonotone == [](C16_NoColumnBehind) /\ [][C16_Step]_vars

----------------------------------------------------------------------------
(* C17.  A next-element call made while a row remains has, when it         *)
(* returns, moved the iterator by exactly one row and row_idx by exactly   *)
(* one since it was called, whatever the element is (a sequence included)  *)
(* and whether or not its decode failed.                                   *)

C17_Returned ==
    (target # "any" /\ returns("elem") /\ pc' = "running" /\ stack' # stack) =>
        /\ row_idx' = top_frame.row_idx + 1
        /\ Len(rows') + rows_rest' = top_frame.rows_left - 1

C17_OneRowPerElement == [][C17_Returned]_vars

----------------------------------------------------------------------------
(* C21.  A next-key call that reports the end of the map leaves the rows,  *)
(* row_idx, key_idx and cur_type as they were; and from then on, until a   *)
(* next-element call starts or returns, every next-key call reports the    *)
(* end of the map again (it neither yields a key nor aborts).              *)

(* A step of next_key_seed: the one handler of a MapAccess besides the     *)
(* return of its visitor.                                                  *)
C21_NextKeyCall ==
    /\ holds("map") \/ holds("mapend")
    /\ ~(pc' = "running" /\ Len(stack') = Len(stack)
         /\ stack'[Len(stack')].mode = "done")

C21_ReportsEnd ==
    /\ C21_NextKeyCall /\ pc' = "running"
    /\ ret'.op = "next_key_seed" /\ ret'.tag = "end"

(* A step of next_element_seed that starts an element, or its return.      *)
C21_NextElement ==
    \/ holds("seq") /\ Len(stack') = Len(stack) + 1
    \/ returns("elem")

(* The column after key_idx is past the current row or has no name in the  *)
(* header, and an empty header has been passed without an abort.           *)
C21_Ended ==
    /\ rows # <<>>
    /\ LET c == IF key_idx = <<>> THEN 0 ELSE key_idx[1] + 1
       IN  \/ c >= Len(rows[1])
           \/ c >= Len(types)
           \/ types[c + 1] = <<>>
    /\ Len(types) = 0 => unchecked

C21_Step ==
    /\ C21_ReportsEnd =>
           /\ UNCHANGED <<rows, rows_rest, row_idx, key_idx, cur_type>>
           /\ C21_Ended'
    /\ (C21_Ended /\ ~C21_NextElement) => C21_Ended'
    /\ (C21_Ended /\ C21_NextKeyCall) => C21_ReportsEnd

C21_EndOfMapStable == [][C21_Step]_vars

(* A map asked for at the value of a named column has reported its end,    *)
(* and the map around it has its next key still to ask for.                *)
C21_Witness ==
    /\ pc = "running" /\ Len(stack) = 2
    /\ stack[1].mode = "mapv"
    /\ stack[2].hook = "val" /\ stack[2].mode = "mapend"
    /\ ret.op = "next_key_seed" /\ ret.tag = "end"
    /\ HasHeader /\ Len(Header) > 0 /\ is_some(key_idx)

----------------------------------------------------------------------------
(* C22.  A request for a bool, an integer, a float, a string or the tag of *)
(* an enum made while key_idx is None answers Err(MissingValue), whatever  *)
(* the current row holds, and changes neither the rows, row_idx nor        *)
(* key_idx; with a current row no request at row granularity aborts; so an *)
(* element of a sequence asked for as such a scalar makes next_element_seed *)
(* return that error.                                                      *)

C22_Scalars ==
    {"deserialize_bool", "deserialize_i64", "deserialize_f64", "deserialize_str"}

(* The result r is that of a scalar handler, or of deserialize_identifier  *)
(* reading the tag of an enum.                                             *)
C22_ScalarOrTag(r, tag_wanted) ==
    r.op \in C22_Scalars \/ (r.op = "deserialize_identifier" /\ tag_wanted)

C22_IsMissingValue(r) == r.tag = "err" /\ r.err = "MissingValue"

C22_AtRow == holds("de") /\ key_idx = <<>>

C22_Answered ==
    /\ (/\ C22_AtRow /\ pc' = "running" /\ Len(stack') = Len(stack)
        /\ stack'[Len(stack')].mode = "done"
        /\ C22_ScalarOrTag(ret', parsing_enum)) =>
           /\ C22_IsMissingValue(ret') /\ ret'.ctx_key = <<>>
           /\ UNCHANGED <<rows, rows_rest, row_idx, key_idx>>
    /\ (C22_AtRow /\ rows # <<>>) => pc' = "running"
    /\ (returns("elem") /\ C22_ScalarOrTag(ret, parsing_enum)) =>
           /\ C22_IsMissingValue(ret)
           /\ C22_IsMissingValue(ret') /\ ret'.op = "next_element_seed"

C22_ScalarAtRowMissing == [][C22_Answered]_vars

(* An element asked for as a string has failed, on a row whose one cell    *)
(* has formatted text.                                                     *)
C22_Witness ==
    /\ returns("elem")
    /\ ret.op = "deserialize_str" /\ C22_IsMissingValue(ret)
    /\ rows # <<>> /\ Len(rows[1]) = 1
    /\ rows[1][1].formatted_value # <<>>

====
